---- MODULE Spec2Model ----
(***************************************************************************)
(* Model of irontrade_alpaca: the conversion layer (src/src/convert.rs)    *)
(* and the adapter client (src/src/client.rs) that implements the          *)
(* IronTradeClient contract on top of an apca broker session.              *)
(*                                                                         *)
(* Values of the two data models are records that carry the name of the    *)
(* type they belong to, so that a broker-native value and the internal     *)
(* value it converts to are different values of the model.                 *)
(***************************************************************************)
EXTENDS Integers, Sequences, FiniteSets, TLC

VARIABLES orders, placed, last, conv

vars == <<orders, placed, last, conv>>

(***************************************************************************)
(* Bounds of the model.                                                    *)
(***************************************************************************)
\* Decimal values (Num) range over 0..MaxNum.
MaxNum == 1
\* The broker account holds at most MaxOrders orders.
MaxOrders == 2

Nums == 0..MaxNum

(***************************************************************************)
(* Option<T>, Result<T, E> and a panic (an unwinding todo!()).             *)
(***************************************************************************)
None == [some |-> FALSE]
Some(x) == [some |-> TRUE, value |-> x]
Option(S) == {None} \cup {Some(x) : x \in S}

Ok(v) == [ok |-> TRUE, value |-> v]
Err(e) == [ok |-> FALSE, err |-> e]

Panic == [panic |-> "not yet implemented"]

(***************************************************************************)
(* The broker-native data model (crate apca) as convert.rs imports it.     *)
(***************************************************************************)
ApcaQuantity(q) == [type |-> "ApcaAmount", variant |-> "Quantity", quantity |-> q]
ApcaNotional(n) == [type |-> "ApcaAmount", variant |-> "Notional", notional |-> n]
ApcaAmounts == {ApcaQuantity(q) : q \in Nums} \cup {ApcaNotional(n) : n \in Nums}

ApcaOrderStatus(v) == [type |-> "ApcaOrderStatus", variant |-> v]
ApcaOrderStatusVariants ==
    {"New", "PartiallyFilled", "Filled", "Expired",
     "Canceled", "Rejected", "Accepted", "Unknown"}
ApcaOrderStatuses == {ApcaOrderStatus(v) : v \in ApcaOrderStatusVariants}

Type(v) == [type |-> "Type", variant |-> v]
TypeVariants == {"Market", "Limit", "Stop", "StopLimit", "TrailingStop"}
Types == {Type(v) : v \in TypeVariants}

AssetSymbols == {"BTC/USD", "AAVE/USD"}

ApcaOrders ==
    [id : 1..MaxOrders,
     symbol : AssetSymbols,
     amount : ApcaAmounts,
     filled_quantity : Nums,
     average_fill_price : Option(Nums),
     status : ApcaOrderStatuses,
     type_ : Types]

Positions ==
    [symbol : {"BTCUSD", "AAVEUSD"},
     average_entry_price : Nums,
     quantity : Nums,
     market_value : Option(Nums)]

(***************************************************************************)
(* The internal data model (crate irontrade).                              *)
(***************************************************************************)
IronTradeQuantity(q) ==
    [type |-> "IronTradeAmount", variant |-> "Quantity", quantity |-> q]
IronTradeNotional(n) ==
    [type |-> "IronTradeAmount", variant |-> "Notional", notional |-> n]
IronTradeAmounts ==
    {IronTradeQuantity(q) : q \in Nums} \cup {IronTradeNotional(n) : n \in Nums}

IronTradeOrderStatus(v) == [type |-> "IronTradeOrderStatus", variant |-> v]
IronTradeOrderType(v) == [type |-> "IronTradeOrderType", variant |-> v]

\* Uuid::to_string: an injective rendering of the broker's order id.
IdToString(id) == "order-" \o ToString(id)

(***************************************************************************)
(* convert.rs                                                              *)
(***************************************************************************)
\* A plausible slip: the match arms build the other variant.
FromApcaAmountSwapped(amount) ==
    IF amount.variant = "Quantity"
    THEN IronTradeNotional(amount.quantity)
    ELSE IronTradeQuantity(amount.notional)

\* impl From<ApcaAmount> for Amount
FromApcaAmount(amount) ==
    IF amount.variant = "Quantity"
    THEN IronTradeQuantity(amount.quantity)
    ELSE IronTradeNotional(amount.notional)

\* impl From<Amount> for ApcaAmount
FromAmount(amount) ==
    IF amount.variant = "Quantity"
    THEN ApcaQuantity(amount.quantity)
    ELSE ApcaNotional(amount.notional)

\* impl From<Position> for OpenPosition
FromPosition(position) ==
    [asset_symbol |-> position.symbol,
     average_entry_price |-> Some(position.average_entry_price),
     quantity |-> position.quantity,
     market_value |-> position.market_value]

\* A plausible slip: the Expired arm is missing and falls to the default arm.
FromApcaOrderStatusNoExpired(status) ==
    CASE status.variant = "New" -> IronTradeOrderStatus("New")
      [] status.variant = "PartiallyFilled" -> IronTradeOrderStatus("PartiallyFilled")
      [] status.variant = "Filled" -> IronTradeOrderStatus("Filled")
      [] OTHER -> IronTradeOrderStatus("Unimplemented")

\* impl From<ApcaOrderStatus> for OrderStatus
FromApcaOrderStatus(status) ==
    CASE status.variant = "New" -> IronTradeOrderStatus("New")
      [] status.variant = "PartiallyFilled" -> IronTradeOrderStatus("PartiallyFilled")
      [] status.variant = "Filled" -> IronTradeOrderStatus("Filled")
      [] status.variant = "Expired" -> IronTradeOrderStatus("Expired")
      [] OTHER -> IronTradeOrderStatus("Unimplemented")

\* A plausible slip: the default arm coerces to Market instead of todo!().
FromTypeCoerced(type_) ==
    CASE type_.variant = "Market" -> IronTradeOrderType("Market")
      [] type_.variant = "Limit" -> IronTradeOrderType("Limit")
      [] OTHER -> IronTradeOrderType("Market")

\* impl From<Type> for OrderType
FromType(type_) ==
    CASE type_.variant = "Market" -> IronTradeOrderType("Market")
      [] type_.variant = "Limit" -> IronTradeOrderType("Limit")
      [] OTHER -> Panic

\* impl From<ApcaOrder> for Order: the panic of order.type_.into() unwinds
\* through the conversion, so no Order is built.
FromApcaOrder(order) ==
    LET amount == FromApcaAmount(order.amount)
        status == FromApcaOrderStatus(order.status)
        type_ == FromType(order.type_)
    IN  IF type_ = Panic
        THEN Panic
        ELSE [order_id |-> IdToString(order.id),
              asset_symbol |-> order.symbol,
              filled_quantity |-> order.filled_quantity,
              amount |-> amount,
              average_fill_price |-> order.average_fill_price,
              status |-> status,
              type_ |-> type_]

(***************************************************************************)
(* The conversions applied to inputs drawn from the bounded value sets.    *)
(* conv holds the conversion, its input and, once applied, its output;     *)
(* for the two amount conversions, back holds the output converted back.   *)
(***************************************************************************)
ConvIdle == [fn |-> "none", stage |-> "idle"]

ConvInputs ==
    [fn : {"FromApcaAmount"}, stage : {"input"}, input : ApcaAmounts]
    \cup [fn : {"FromAmount"}, stage : {"input"}, input : IronTradeAmounts]
    \cup [fn : {"FromApcaOrderStatus"}, stage : {"input"}, input : ApcaOrderStatuses]
    \cup [fn : {"FromType"}, stage : {"input"}, input : Types]
    \cup [fn : {"FromApcaOrder"}, stage : {"input"}, input : ApcaOrders]
    \cup [fn : {"FromPosition"}, stage : {"input"}, input : Positions]

Converted(output) ==
    [fn |-> conv.fn, stage |-> "output", input |-> conv.input, output |-> output]

ApplyFromApcaAmount ==
    /\ conv.fn = "FromApcaAmount" /\ conv.stage = "input"
    /\ conv' = Converted(FromApcaAmount(conv.input))
    /\ UNCHANGED <<orders, placed, last>>

ApplyFromAmount ==
    /\ conv.fn = "FromAmount" /\ conv.stage = "input"
    /\ conv' = Converted(FromAmount(conv.input))
    /\ UNCHANGED <<orders, placed, last>>

\* The output of an amount conversion converted back by the other one.
ApplyBack ==
    /\ conv.fn \in {"FromApcaAmount", "FromAmount"} /\ conv.stage = "output"
    /\ conv' = [fn |-> conv.fn, stage |-> "back", input |-> conv.input,
                output |-> conv.output,
                back |-> IF conv.fn = "FromApcaAmount"
                         THEN FromAmount(conv.output)
                         ELSE FromApcaAmount(conv.output)]
    /\ UNCHANGED <<orders, placed, last>>

ApplyFromApcaOrderStatus ==
    /\ conv.fn = "FromApcaOrderStatus" /\ conv.stage = "input"
    /\ conv' = Converted(FromApcaOrderStatus(conv.input))
    /\ UNCHANGED <<orders, placed, last>>

ApplyFromType ==
    /\ conv.fn = "FromType" /\ conv.stage = "input"
    /\ conv' = Converted(FromType(conv.input))
    /\ UNCHANGED <<orders, placed, last>>

ApplyFromApcaOrder ==
    /\ conv.fn = "FromApcaOrder" /\ conv.stage = "input"
    /\ conv' = Converted(FromApcaOrder(conv.input))
    /\ UNCHANGED <<orders, placed, last>>

ApplyFromPosition ==
    /\ conv.fn = "FromPosition" /\ conv.stage = "input"
    /\ conv' = Converted(FromPosition(conv.input))
    /\ UNCHANGED <<orders, placed, last>>

(***************************************************************************)
(* The request side of the two data models, as client.rs imports it.       *)
(***************************************************************************)
OrderSide(v) == [type |-> "OrderSide", variant |-> v]
Side(v) == [type |-> "Side", variant |-> v]
TimeInForce(v) == [type |-> "TimeInForce", variant |-> v]
Status(v) == [type |-> "orders::Status", variant |-> v]

AssetPair(base, quote) == [type |-> "AssetPair", base |-> base, quote |-> quote]
AssetPairs == {AssetPair("BTC", "USD")}
\* AssetPair::to_string
AssetPairToString(pair) == pair.base \o "/" \o pair.quote

\* The internal order requests a caller passes to place_order.
OrderRequests ==
    [asset_pair : AssetPairs,
     amount : {IronTradeQuantity(1), IronTradeNotional(MaxNum)},
     side : {OrderSide("Buy"), OrderSide("Sell")},
     limit_price : {None, Some(MaxNum)}]

(***************************************************************************)
(* The broker session (apca::Client::issue) and the broker account behind  *)
(* it.  A request is either delivered, and answered from the account, or   *)
(* it fails with a RequestError: an error the endpoint reports (Endpoint)  *)
(* or a failure of the transport (Hyper).  The fate of a call's request    *)
(* is also the fate of any further request the call would issue.           *)
(***************************************************************************)
RequestError(variant, cause) ==
    [type |-> "RequestError", variant |-> variant, cause |-> cause]

NotFound == RequestError("Endpoint", "GetError::NotFound")
TransportErrors == {RequestError("Hyper", "connection failed")}

EndpointErrors(endpoint) ==
    CASE endpoint = "order::Create" -> {RequestError("Endpoint", "CreateError::InvalidInput")}
      [] endpoint = "orders::List" -> {RequestError("Endpoint", "ListError::UnexpectedStatus")}
      [] endpoint = "account::Get" -> {RequestError("Endpoint", "GetError::AuthenticationFailed")}
      [] endpoint = "position::Get" -> {NotFound}

Delivered == [fate |-> "delivered"]
Failed(e) == [fate |-> "failed", err |-> e]
Fates(endpoint) ==
    {Delivered} \cup {Failed(e) : e \in EndpointErrors(endpoint) \cup TransportErrors}
\* What the account holds besides its orders, at the time of a call.
Worlds ==
    [cash : {1, MaxNum + 1},
     average_entry_price : {MaxNum},
     quantity : {1},
     market_value : {None, Some(MaxNum)}]
\* The account as seen by the calls that read nothing but its orders.
NoWorld == [cash |-> 1, average_entry_price |-> MaxNum, quantity |-> 1,
            market_value |-> None]

\* The broker's name of an asset: "BTC/USD" is reported as "BTCUSD".
BrokerSymbol(sym) ==
    CASE sym = "BTC/USD" -> "BTCUSD"
      [] sym = "AAVE/USD" -> "AAVEUSD"
      [] OTHER -> sym

OpenStatusVariants == {"New", "PartiallyFilled", "Accepted"}

\* The orders the broker lists for a ListReq, newest first.
BrokerList(listReq, ords) ==
    LET Listed(o) ==
            CASE listReq.status.variant = "All" -> TRUE
              [] listReq.status.variant = "Open" ->
                    o.status.variant \in OpenStatusVariants
              [] OTHER -> o.status.variant \notin OpenStatusVariants
    IN  SelectSeq(ords, Listed)

\* The order the broker creates for a CreateReq.
NewOrder(createReq, ords) ==
    [id |-> Len(ords) + 1,
     symbol |-> createReq.symbol,
     amount |-> createReq.amount,
     filled_quantity |-> 0,
     average_fill_price |-> None,
     status |-> ApcaOrderStatus("New"),
     type_ |-> createReq.type_]

\* self.apca_client.issue::<E>(&request).await
Issue(request, fate, ords, world) ==
    IF fate.fate = "failed"
    THEN Err(fate.err)
    ELSE CASE request.endpoint = "order::Create" ->
                Ok(NewOrder(request.input, ords))
           [] request.endpoint = "orders::List" ->
                Ok(BrokerList(request.input, ords))
           [] request.endpoint = "account::Get" ->
                Ok([cash |-> world.cash])
           [] request.endpoint = "position::Get" ->
                Ok([symbol |-> BrokerSymbol(request.input.sym),
                    average_entry_price |-> world.average_entry_price,
                    quantity |-> world.quantity,
                    market_value |-> world.market_value])

\* The account's orders after the session handled the requests of a call.
RECURSIVE BrokerAfter(_, _, _, _)
BrokerAfter(issued, fate, ords, i) ==
    IF i > Len(issued)
    THEN ords
    ELSE BrokerAfter(issued, fate,
                     IF issued[i].endpoint = "order::Create"
                        /\ fate.fate = "delivered"
                     THEN <<NewOrder(issued[i].input, ords)>> \o ords
                     ELSE ords,
                     i + 1)

IsOk(r) == "ok" \in DOMAIN r /\ r.ok
IsErr(r) == "ok" \in DOMAIN r /\ ~r.ok

\* The ? operator: anyhow::Error::from(e) keeps e as the error's source.
AnyhowFrom(e) == [type |-> "anyhow::Error", source |-> e]

(***************************************************************************)
(* client.rs: impl IronTradeClient for AlpacaClient.  Each operation is    *)
(* given the session's fate and the account, and yields the requests it    *)
(* issued, the session's response and the outcome the caller gets.         *)
(***************************************************************************)
\* A plausible slip: type_ is left at CreateReqInit's default.
CreateRequestAlwaysMarket(req) ==
    [endpoint |-> "order::Create",
     input |-> [symbol |-> AssetPairToString(req.asset_pair),
                side |-> IF req.side.variant = "Buy" THEN Side("Buy") ELSE Side("Sell"),
                amount |-> FromAmount(req.amount),
                type_ |-> Type("Market"),
                time_in_force |-> TimeInForce("UntilCanceled"),
                limit_price |-> req.limit_price,
                stop_price |-> None]]

\* A plausible slip: time_in_force is left at CreateReqInit's default.
CreateRequestDefaultTimeInForce(req) ==
    [endpoint |-> "order::Create",
     input |-> [symbol |-> AssetPairToString(req.asset_pair),
                side |-> IF req.side.variant = "Buy" THEN Side("Buy") ELSE Side("Sell"),
                amount |-> FromAmount(req.amount),
                type_ |-> IF req.limit_price.some THEN Type("Limit") ELSE Type("Market"),
                time_in_force |-> TimeInForce("Day"),
                limit_price |-> req.limit_price,
                stop_price |-> None]]

\* place_order: the create-order request built from the internal request.
CreateRequest(req) ==
    LET side == IF req.side.variant = "Buy" THEN Side("Buy") ELSE Side("Sell")
        type_ == IF req.limit_price.some THEN Type("Limit") ELSE Type("Market")
        amount == FromAmount(req.amount)
    IN  [endpoint |-> "order::Create",
         input |-> [symbol |-> AssetPairToString(req.asset_pair),
                    side |-> side,
                    amount |-> amount,
                    type_ |-> type_,
                    time_in_force |-> TimeInForce("UntilCanceled"),
                    limit_price |-> req.limit_price,
                    stop_price |-> None]]

\* A plausible slip: the request is issued again when it fails.
PlaceOrderRetry(req, fate, ords, world) ==
    LET request == CreateRequest(req)
        first == Issue(request, fate, ords, world)
        response == IF first.ok THEN first ELSE Issue(request, fate, ords, world)
    IN  [issued |-> IF first.ok THEN <<request>> ELSE <<request, request>>,
         response |-> first,
         outcome |-> IF response.ok
                     THEN Ok([order_id |-> IdToString(response.value.id)])
                     ELSE Err(AnyhowFrom(response.err))]

\* place_order
PlaceOrder(req, fate, ords, world) ==
    LET request == CreateRequest(req)
        response == Issue(request, fate, ords, world)
    IN  [issued |-> <<request>>,
         response |-> response,
         outcome |-> IF response.ok
                     THEN Ok([order_id |-> IdToString(response.value.id)])
                     ELSE Err(AnyhowFrom(response.err))]

\* A plausible slip: status is left at ListReq's default.
ListRequestDefault ==
    [endpoint |-> "orders::List",
     input |-> [status |-> Status("Open"), limit |-> None, nested |-> FALSE]]

\* get_orders: the list request.
ListRequest ==
    [endpoint |-> "orders::List",
     input |-> [status |-> Status("All"), limit |-> None, nested |-> FALSE]]

\* get_orders: a panic of a conversion inside map() unwinds through the call.
GetOrders(fate, ords, world) ==
    LET request == ListRequest
        response == Issue(request, fate, ords, world)
        converted == [i \in 1..Len(response.value) |-> FromApcaOrder(response.value[i])]
    IN  [issued |-> <<request>>,
         response |-> response,
         outcome |-> IF ~response.ok
                     THEN Err(AnyhowFrom(response.err))
                     ELSE IF \E i \in DOMAIN converted : converted[i] = Panic
                          THEN Panic
                          ELSE Ok([orders |-> converted])]

\* get_cash
GetCash(fate, ords, world) ==
    LET request == [endpoint |-> "account::Get", input |-> <<>>]
        response == Issue(request, fate, ords, world)
    IN  [issued |-> <<request>>,
         response |-> response,
         outcome |-> IF response.ok
                     THEN Ok([cash |-> response.value.cash])
                     ELSE Err(AnyhowFrom(response.err))]

\* A plausible slip: the session's error is replaced by a message.
GetOpenPositionOpaque(asset_symbol, fate, ords, world) ==
    LET request == [endpoint |-> "position::Get", input |-> [sym |-> asset_symbol]]
        response == Issue(request, fate, ords, world)
    IN  [issued |-> <<request>>,
         response |-> response,
         outcome |-> IF response.ok
                     THEN Ok([open_position |-> FromPosition(response.value)])
                     ELSE Err(AnyhowFrom(RequestError("Message", "request failed")))]

\* get_open_position
GetOpenPosition(asset_symbol, fate, ords, world) ==
    LET request == [endpoint |-> "position::Get", input |-> [sym |-> asset_symbol]]
        response == Issue(request, fate, ords, world)
    IN  [issued |-> <<request>>,
         response |-> response,
         outcome |-> IF response.ok
                     THEN Ok([open_position |-> FromPosition(response.value)])
                     ELSE Err(AnyhowFrom(response.err))]

(***************************************************************************)
(* The calls of a caller and the steps of the broker.  last is the most    *)
(* recent call, with what it issued and what it returned; placed is what   *)
(* the caller learnt from its successful place_order calls.                *)
(***************************************************************************)
Idle == [op |-> "none"]

Called(op, input, run) ==
    [op |-> op, input |-> input, issued |-> run.issued,
     response |-> run.response, outcome |-> run.outcome]

place_order ==
    \E req \in OrderRequests, fate \in Fates("order::Create") :
        LET run == PlaceOrder(req, fate, orders, NoWorld)
            after == BrokerAfter(run.issued, fate, orders, 1)
        IN  /\ Len(after) <= MaxOrders
            /\ orders' = after
            /\ placed' = IF IsOk(run.outcome)
                         THEN placed \cup {[order_id |-> run.outcome.value.order_id,
                                            limit_price |-> req.limit_price]}
                         ELSE placed
            /\ last' = Called("place_order", req, run)
            /\ UNCHANGED conv

get_orders ==
    \E fate \in Fates("orders::List") :
        LET run == GetOrders(fate, orders, NoWorld)
        IN  /\ last' = Called("get_orders", <<>>, run)
            /\ orders' = BrokerAfter(run.issued, fate, orders, 1)
            /\ UNCHANGED <<placed, conv>>

get_cash ==
    \E fate \in Fates("account::Get"), world \in {w \in Worlds : w.market_value = None} :
        LET run == GetCash(fate, orders, world)
        IN  /\ last' = Called("get_cash", <<>>, run)
            /\ orders' = BrokerAfter(run.issued, fate, orders, 1)
            /\ UNCHANGED <<placed, conv>>

get_open_position ==
    \E asset_symbol \in AssetSymbols, fate \in Fates("position::Get"),
       world \in {w \in Worlds : w.cash = 1} :
        LET run == GetOpenPosition(asset_symbol, fate, orders, world)
        IN  /\ last' = Called("get_open_position", asset_symbol, run)
            /\ orders' = BrokerAfter(run.issued, fate, orders, 1)
            /\ UNCHANGED <<placed, conv>>

\* The statuses the broker moves an order through.
BrokerStatusVariants == {"New", "Filled", "Canceled"}

\* The broker moves an order to another status; fills come with a price.
BrokerProgress ==
    \E i \in DOMAIN orders, v \in BrokerStatusVariants :
        /\ orders[i].status.variant # v
        /\ orders' = [orders EXCEPT ![i] =
                        [@ EXCEPT !.status = ApcaOrderStatus(v),
                                  !.filled_quantity =
                                      IF v = "Filled" THEN 1 ELSE 0,
                                  !.average_fill_price =
                                      IF v = "Filled" THEN Some(MaxNum) ELSE None]]
        /\ last' = Idle
        /\ UNCHANGED <<placed, conv>>

\* An order reaches the account by another channel than this client,
\* with an order type this client never issues.
ExternalTypes == {Type("Stop")}

ExternalOrder ==
    \E type_ \in ExternalTypes :
        /\ Len(orders) < MaxOrders
        /\ orders' = <<[id |-> Len(orders) + 1,
                        symbol |-> "AAVE/USD",
                        amount |-> ApcaQuantity(1),
                        filled_quantity |-> 0,
                        average_fill_price |-> None,
                        status |-> ApcaOrderStatus("New"),
                        type_ |-> type_]>> \o orders
        /\ last' = Idle
        /\ UNCHANGED <<placed, conv>>

Init ==
    /\ orders = <<>>
    /\ placed = {}
    /\ last = Idle
    /\ conv = ConvIdle

Next ==
    \/ place_order
    \/ get_orders
    \/ get_cash
    \/ get_open_position
    \/ BrokerProgress
    \/ ExternalOrder

Spec == Init /\ [][Next]_vars

ConvInit ==
    /\ orders = <<>>
    /\ placed = {}
    /\ last = Idle
    /\ conv \in ConvInputs

ConvNext ==
    \/ ApplyFromApcaAmount
    \/ ApplyFromAmount
    \/ ApplyBack
    \/ ApplyFromApcaOrderStatus
    \/ ApplyFromType
    \/ ApplyFromApcaOrder
    \/ ApplyFromPosition

ConvSpec == ConvInit /\ [][ConvNext]_vars

(***************************************************************************)
(* Properties of the conversion layer, checked under ConvSpec.             *)
(***************************************************************************)
AmountValue(amount) ==
    IF amount.variant = "Quantity" THEN amount.quantity ELSE amount.notional

\* C1: an amount converted to the other data model keeps its Quantity or
\* Notional tag and its numeric value, and converted back again it is the
\* amount that was started from, in both directions.
AmountRoundTrip ==
    (conv.fn \in {"FromApcaAmount", "FromAmount"} /\ conv.stage \in {"output", "back"})
    => /\ conv.output.variant = conv.input.variant
       /\ AmountValue(conv.output) = AmountValue(conv.input)
       /\ conv.output.type =
            (IF conv.fn = "FromApcaAmount" THEN "IronTradeAmount" ELSE "ApcaAmount")
       /\ conv.stage = "back" => conv.back = conv.input

AmountRoundTripWitness ==
    /\ conv.fn = "FromApcaAmount"
    /\ conv.stage = "back"
    /\ conv.input = ApcaQuantity(MaxNum)
    /\ conv.output = IronTradeQuantity(MaxNum)
    /\ conv.back = conv.input

\* C2: the status conversion maps New, PartiallyFilled, Filled and Expired
\* to the status of the same name and every other broker status to
\* Unimplemented; it yields one internal status for every input and never
\* panics.
StatusTotality ==
    (conv.fn = "FromApcaOrderStatus" /\ conv.stage = "output")
    => /\ conv.input = ApcaOrderStatus("New") => conv.output = IronTradeOrderStatus("New")
       /\ conv.input = ApcaOrderStatus("PartiallyFilled")
            => conv.output = IronTradeOrderStatus("PartiallyFilled")
       /\ conv.input = ApcaOrderStatus("Filled")
            => conv.output = IronTradeOrderStatus("Filled")
       /\ conv.input = ApcaOrderStatus("Expired")
            => conv.output = IronTradeOrderStatus("Expired")
       /\ conv.input.variant \notin {"New", "PartiallyFilled", "Filled", "Expired"}
            => conv.output = IronTradeOrderStatus("Unimplemented")
       /\ conv.output # Panic
       /\ conv.output \in
            {IronTradeOrderStatus(v) :
                v \in {"New", "PartiallyFilled", "Filled", "Expired", "Unimplemented"}}

StatusTotalityWitness ==
    /\ conv.fn = "FromApcaOrderStatus"
    /\ conv.stage = "output"
    /\ conv.input = ApcaOrderStatus("Canceled")
    /\ conv.output = IronTradeOrderStatus("Unimplemented")

\* C4: the conversion of a broker order to an internal order completes
\* without a panic for every broker order, whatever its status, order type
\* and amount.
OrderConversionTotal ==
    (conv.fn = "FromApcaOrder" /\ conv.stage = "output") => conv.output # Panic

\* C5: the order-type conversion maps Market to Market and Limit to Limit
\* and fails for every other broker order type, and the conversion of an
\* order of such a type yields no internal order: no order is returned
\* labelled with a type other than its own.
NoSilentCoercion ==
    /\ (conv.fn = "FromType" /\ conv.stage = "output")
       => /\ conv.input = Type("Market") => conv.output = IronTradeOrderType("Market")
          /\ conv.input = Type("Limit") => conv.output = IronTradeOrderType("Limit")
          /\ conv.input.variant \notin {"Market", "Limit"} => conv.output = Panic
    /\ (conv.fn = "FromApcaOrder" /\ conv.stage = "output")
       => /\ conv.input.type_.variant \notin {"Market", "Limit"} => conv.output = Panic
          /\ conv.output # Panic
               => conv.output.type_ = IronTradeOrderType(conv.input.type_.variant)

NoSilentCoercionWitness ==
    /\ conv.fn = "FromApcaOrder"
    /\ conv.stage = "output"
    /\ conv.input.type_ = Type("StopLimit")
    /\ conv.output = Panic

(***************************************************************************)
(* Properties of the adapter client, checked under Spec.                   *)
(***************************************************************************)
\* C3: the create-order request place_order issues has type Limit and the
\* request's limit price when the request has a limit price, and type
\* Market and no limit price when it has none.
TypeDerivation ==
    last.op = "place_order"
    => /\ Len(last.issued) >= 1
       /\ \A i \in DOMAIN last.issued :
            LET request == last.issued[i].input
            IN  /\ last.issued[i].endpoint = "order::Create"
                /\ last.input.limit_price.some
                     => /\ request.type_ = Type("Limit")
                        /\ request.limit_price = last.input.limit_price
                /\ ~last.input.limit_price.some
                     => /\ request.type_ = Type("Market")
                        /\ request.limit_price = None

TypeDerivationWitness ==
    /\ last.op = "place_order"
    /\ last.input.limit_price = Some(MaxNum)
    /\ last.issued[1].input.type_ = Type("Limit")
    /\ last.issued[1].input.limit_price = Some(MaxNum)

\* C6: get_orders asks for the orders of all statuses, and when the broker
\* answers with a list it returns a list of the same length whose i-th
\* order is the conversion of the broker's i-th order; an empty list is
\* returned as an empty list.
GetOrdersListsAll ==
    last.op = "get_orders"
    => /\ Len(last.issued) >= 1
       /\ last.issued[1].endpoint = "orders::List"
       /\ last.issued[1].input.status = Status("All")
       /\ IsOk(last.response)
            => /\ IsOk(last.outcome)
               /\ Len(last.outcome.value.orders) = Len(last.response.value)
               /\ \A i \in DOMAIN last.response.value :
                    LET order == last.response.value[i]
                        got == last.outcome.value.orders[i]
                    IN  /\ got.order_id = IdToString(order.id)
                        /\ got.asset_symbol = order.symbol
                        /\ got.filled_quantity = order.filled_quantity
                        /\ got.average_fill_price = order.average_fill_price
                        /\ got.amount.variant = order.amount.variant
                        /\ AmountValue(got.amount) = AmountValue(order.amount)

\* The class of the error a failed call returns: the variant of the
\* session's RequestError that the returned error carries.
ErrorClass(outcome) == outcome.err.source.variant

\* C7: when the session reports that no position is held for the symbol,
\* get_open_position returns an error that names that condition and that
\* differs, in value and in class, from the error it returns for the same
\* call when the transport fails.
NotFoundDistinct ==
    (last.op = "get_open_position" /\ last.response = Err(NotFound))
    => /\ IsErr(last.outcome)
       /\ last.outcome.err.source = NotFound
       /\ \A t \in TransportErrors, world \in Worlds :
            LET other == GetOpenPosition(last.input, Failed(t), orders, world).outcome
            IN  /\ IsErr(other)
                /\ other # last.outcome
                /\ ErrorClass(other) # ErrorClass(last.outcome)

NotFoundDistinctWitness ==
    /\ last.op = "get_open_position"
    /\ last.input = "BTC/USD"
    /\ last.response = Err(NotFound)
    /\ last.outcome = Err(AnyhowFrom(NotFound))

\* C8: every order id a successful place_order returned is a non-empty
\* string, and every later successful get_orders lists an order with that
\* id, of type Market when the order was placed without a limit price,
\* whatever status the broker moved the order to.
PlaceThenList ==
    /\ \A p \in placed : p.order_id # ""
    /\ (last.op = "get_orders" /\ IsOk(last.outcome))
       => \A p \in placed :
            \E i \in DOMAIN last.outcome.value.orders :
                LET got == last.outcome.value.orders[i]
                IN  /\ got.order_id = p.order_id
                    /\ ~p.limit_price.some => got.type_ = IronTradeOrderType("Market")

PlaceThenListWitness ==
    /\ last.op = "get_orders"
    /\ IsOk(last.outcome)
    /\ \E p \in placed :
        \E i \in DOMAIN last.outcome.value.orders :
            LET got == last.outcome.value.orders[i]
            IN  /\ got.order_id = p.order_id
                /\ ~p.limit_price.some
                /\ got.type_ = IronTradeOrderType("Market")
                /\ got.status = IronTradeOrderStatus("Filled")

OpEndpoint(op) ==
    CASE op = "place_order" -> "order::Create"
      [] op = "get_orders" -> "orders::List"
      [] op = "get_cash" -> "account::Get"
      [] op = "get_open_position" -> "position::Get"

\* C9: every call of place_order, get_orders, get_cash and
\* get_open_position issues exactly one request to the session, and when
\* that request fails the call returns the failure, with no order id and
\* no other result.
OneRoundTrip ==
    last.op # "none"
    => /\ Len(last.issued) = 1
       /\ last.issued[1].endpoint = OpEndpoint(last.op)
       /\ IsErr(last.response)
            => /\ IsErr(last.outcome)
               /\ last.outcome = Err(AnyhowFrom(last.response.err))

OneRoundTripWitness ==
    /\ last.op = "place_order"
    /\ Len(last.issued) = 1
    /\ IsErr(last.response)
    /\ last.response.err \in TransportErrors
    /\ IsErr(last.outcome)

\* C10: the create-order request place_order issues carries side Buy
\* exactly when the request's side is Buy and Sell exactly when it is Sell,
\* the request's amount with its tag and value, and time-in-force
\* UntilCanceled.
OutgoingFidelity ==
    last.op = "place_order"
    => /\ Len(last.issued) >= 1
       /\ \A i \in DOMAIN last.issued :
            LET request == last.issued[i].input
            IN  /\ (request.side = Side("Buy")) <=> (last.input.side = OrderSide("Buy"))
                /\ (request.side = Side("Sell")) <=> (last.input.side = OrderSide("Sell"))
                /\ request.amount.type = "ApcaAmount"
                /\ request.amount.variant = last.input.amount.variant
                /\ AmountValue(request.amount) = AmountValue(last.input.amount)
                /\ request.time_in_force = TimeInForce("UntilCanceled")

OutgoingFidelityWitness ==
    /\ last.op = "place_order"
    /\ last.input.side = OrderSide("Sell")
    /\ last.input.amount = IronTradeNotional(MaxNum)
    /\ last.issued[1].input.side = Side("Sell")
    /\ last.issued[1].input.amount = ApcaNotional(MaxNum)
    /\ last.issued[1].input.time_in_force = TimeInForce("UntilCanceled")

====
